---- MODULE Spec2Model ----
(***************************************************************************)
(* Model of KafkaBoatSimulator.py: the orchestrator (__main__), the shared *)
(* boat_queue, the BoatSimulationState entities and the pool of            *)
(* worker_thread_simulation tasks with their claim loop and round loop.    *)
(*                                                                         *)
(* Time is in milliseconds.  A dataset file is modelled by the number of   *)
(* its data rows; data row k of a file is the number k (1-based), so that  *)
(* a loaded row sequence is a sequence of row numbers, and csv_row gives   *)
(* the columns of a row.                                                   *)
(***************************************************************************)
EXTENDS Integers, Sequences, FiniteSets, TLC

\* ------------------------------------------------------------------------
\* Bounds of the model
\* ------------------------------------------------------------------------
MaxBoats == 3          \* N_BOATS ranges over 1..MaxBoats
MaxWorkers == 2        \* MAX_WORKER_THREADS ranges over 1..MaxWorkers
MaxEndRow == 3         \* END_ROW of the modelled configuration
TickStep == 25         \* granularity of the observed clock, in ms
WideFleet == 1001      \* N_BOATS of the run that outgrows the id padding
NumThreads == 3        \* num_threads of the barrier producer
MaxReaderLen == 3      \* rows of a dataset of the barrier producer: 0..MaxReaderLen
MaxStressBoats == 2    \* --boats of the stress-test producer: 1..MaxStressBoats
MaxStressRows == 2     \* rows of its reference dataset: 0..MaxStressRows
MaxRaceRows == 2       \* rows that filter_data leaves to a boat: 0..MaxRaceRows

\* ------------------------------------------------------------------------
\* Program constants
\* ------------------------------------------------------------------------
START_ROW == 1
BoatCap == 50
RateInterval == 50
PRODUCER_END_ROW == 620402

Files == {1, 2}

VARIABLES
    N_BOATS,              \* configuration: number of boats
    MAX_WORKER_THREADS,   \* configuration: number of worker tasks
    END_ROW,              \* configuration: end of the row window
    file_rows,            \* file_rows[f]: number of data rows of dataset f
    BOATS_PER_THREAD,     \* 0 models None (not yet calculated)
    main_pc,              \* position of the orchestrator
    next_boat_id,         \* loop variable of the creation loop
    submitted,            \* number of worker tasks submitted so far
    collected,            \* futures whose result the orchestrator has read
    total_messages,       \* orchestrator's aggregate
    boat_queue,           \* FIFO of boat ids
    boats,                \* boats[b]: the BoatSimulationState of boat b
    pc,                   \* pc[w]: position of worker task w
    local_boats,          \* local_boats[w]: batch of worker w
    max_rounds,           \* max_rounds[w]
    round_index,          \* round_index[w]
    boat_pos,             \* position of the inner loop in local_boats[w]
    total_messages_sent,  \* total_messages_sent[w]
    result,               \* value returned by task w
    message_data,         \* message_data[w]: the last value that
                          \* get_next_message returned to worker w
    emitted,              \* emitted[b]: records of boat b handed to the sink
    visits,               \* visits[b]: number of round-loop visits of boat b
    first_age,            \* first_age[b]: time since the first emission of b
    setup_failed,         \* a dataset could not be opened during setup
    utc_now,              \* the wall clock read by datetime.now, in ms
    reader_len,           \* barrier producer: len(reader) of thread t
    thread_pc,            \* barrier producer: position of thread t
    thread_i,             \* barrier producer: loop index i of thread t
    thread_sent_count,    \* barrier producer: records thread t has published
    barrier_count,        \* threads inside barrier.wait()
    barrier_state,        \* "filling", or "draining" once the barrier tripped
    join_pos,             \* barrier producer: the thread that main joins next
    stress,               \* stress-test producer: the locals of its main()
    race                  \* two-boat producer: main() and its two tasks

vars == <<N_BOATS, MAX_WORKER_THREADS, END_ROW, file_rows, BOATS_PER_THREAD,
          main_pc, next_boat_id, submitted, collected, total_messages,
          boat_queue, boats, pc, local_boats, max_rounds, round_index,
          boat_pos, total_messages_sent, result, message_data, emitted,
          visits, first_age, setup_failed, utc_now,
          reader_len, thread_pc, thread_i, thread_sent_count,
          barrier_count, barrier_state, join_pos, stress, race>>

\* the barrier producer (KafkaProducerThread_single.py)
producer_vars == <<reader_len, thread_pc, thread_i, thread_sent_count,
                   barrier_count, barrier_state, join_pos>>

\* what no step of the simulation proper assigns
outside_vars == <<setup_failed, utc_now, producer_vars, stress, race>>

config_vars == <<N_BOATS, MAX_WORKER_THREADS, END_ROW, file_rows>>
main_vars == <<main_pc, next_boat_id, submitted, collected, total_messages>>
worker_vars == <<pc, local_boats, max_rounds, round_index, boat_pos,
                 total_messages_sent, result, message_data>>

Workers == 1..MAX_WORKER_THREADS
Created == DOMAIN boats

Max(a, b) == IF a >= b THEN a ELSE b
Min(a, b) == IF a <= b THEN a ELSE b

\* ------------------------------------------------------------------------
\* calculate_boats_per_thread
\* ------------------------------------------------------------------------
\* int(base * buffer_factor): base * 1.5 truncated, or base * 1.0
calculate_boats_per_thread(n, w) ==
    LET base_boats_per_thread == Max(1, n \div w)
        buffered == IF n > w THEN (base_boats_per_thread * 3) \div 2
                             ELSE base_boats_per_thread
    IN  Max(Min(Max(1, buffered), BoatCap), 1)

\* ------------------------------------------------------------------------
\* BoatSimulationState
\* ------------------------------------------------------------------------
\* data row k of dataset f as csv.DictReader yields it: the identity column,
\* the two time columns with the recorded instant (before the run, which
\* starts at 0) and the other columns
csv_row(f, k) == [boat |-> f, time |-> 0 - k, timestamp |-> 0 - k, data |-> k]

\* load_data: skip start_row data rows, then read at most end_row - start_row
load_data(f, start_row, end_row) ==
    LET n == Max(0, Min(file_rows[f] - start_row, end_row - start_row))
    IN  [i \in 1..n |-> start_row + i]

RECURSIVE Digits(_)
\* the decimal digits of n, most significant first
Digits(n) == IF n < 10 THEN <<n>> ELSE Append(Digits(n \div 10), n % 10)

RECURSIVE ZeroPad(_, _)
\* d with zeros in front up to the width
ZeroPad(d, width) == IF Len(d) >= width THEN d ELSE ZeroPad(<<0>> \o d, width)

\* the last three digits only
format_03d_truncating(n) == ZeroPad(Digits(n % 1000), 3)

\* f"{n:03d}": at least three digits, more when n needs them
format_03d(n) == ZeroPad(Digits(n), 3)

\* f"BOAT_{boat_id:03d}"
unique_boat_id(boat_id) == [prefix |-> "BOAT_", digits |-> format_03d(boat_id)]

\* __init__.  last_send_time and time.time() are used only in the difference
\* time.time() - last_send_time, which the model keeps as since_last_send,
\* counted up to RateInterval; last_send_time = 0 lies further back than that
NewBoat(boat_id, f) ==
    [boat_id |-> boat_id,
     file_path |-> f,
     data_lines |-> load_data(f, START_ROW, END_ROW),
     current_index |-> 0,
     sent_count |-> 0,
     since_last_send |-> RateInterval,
     completed |-> FALSE]

has_next_message(boat) ==
    boat.current_index < Len(boat.data_lines) /\ ~boat.completed

\* can_send_now with the interval a tenth of the rate interval (0.005)
can_send_now_short(boat) ==
    boat.since_last_send >= RateInterval \div 10

can_send_now(boat) ==
    boat.since_last_send >= RateInterval

\* next_row with the cursor taken as a 1-based index
next_row_stale(boat) == boat.data_lines[Max(1, boat.current_index)]

\* the row returned by get_next_message (0-based cursor, 1-based sequence)
next_row(boat) == boat.data_lines[boat.current_index + 1]

\* the value returned by get_next_message with the timestamp column left
\* as loaded
stamped_row_time_only(boat, current_time) ==
    [csv_row(boat.file_path, next_row(boat)) EXCEPT
        !.time = current_time,
        !.boat = unique_boat_id(boat.boat_id)]

\* the value returned by get_next_message: the copy of the row at the
\* cursor with both time columns set to current_time (datetime.now, in ms)
\* and the identity column set to the unique id
stamped_row(boat, current_time) ==
    [csv_row(boat.file_path, next_row(boat)) EXCEPT
        !.time = current_time,
        !.timestamp = current_time,
        !.boat = unique_boat_id(boat.boat_id)]

None == <<>>

\* get_next_message without sent_count += 1
get_next_message_uncounted(boat) ==
    IF ~has_next_message(boat) THEN boat
    ELSE LET idx == boat.current_index + 1
         IN  [boat EXCEPT !.current_index = idx,
                          !.since_last_send = 0,
                          !.completed = (idx >= Len(boat.data_lines))]

\* get_next_message without its first test
get_next_message_unguarded(boat) ==
    LET idx == boat.current_index + 1
    IN  [boat EXCEPT !.current_index = idx,
                     !.sent_count = boat.sent_count + 1,
                     !.since_last_send = 0,
                     !.completed = (idx >= Len(boat.data_lines))]

\* the value get_next_message returns
get_next_message_return(boat, current_time) ==
    IF ~has_next_message(boat) THEN None ELSE stamped_row(boat, current_time)

\* the state of the boat after get_next_message
get_next_message(boat) ==
    IF ~has_next_message(boat) THEN boat
    ELSE LET idx == boat.current_index + 1
         IN  [boat EXCEPT !.current_index = idx,
                          !.sent_count = boat.sent_count + 1,
                          !.since_last_send = 0,
                          !.completed = (idx >= Len(boat.data_lines))]

\* ------------------------------------------------------------------------
\* Initial state: the configuration is chosen, nothing has run.  Of the
\* datasets, file 1 is longer than the row window and file 2 is shorter
\* (down to no row left after the first START_ROW rows).
\* ------------------------------------------------------------------------
Datasets ==
    /\ file_rows \in [Files -> START_ROW..(END_ROW + 1)]
    /\ file_rows[1] > END_ROW
    /\ file_rows[2] < END_ROW

SimulatorNotRun ==
    /\ BOATS_PER_THREAD = 0
    /\ main_pc = "calc"
    /\ next_boat_id = 1
    /\ submitted = 0
    /\ collected = {}
    /\ total_messages = 0
    /\ boat_queue = <<>>
    /\ boats = <<>>
    /\ pc = [w \in Workers |-> "unsubmitted"]
    /\ local_boats = [w \in Workers |-> <<>>]
    /\ max_rounds = [w \in Workers |-> 0]
    /\ round_index = [w \in Workers |-> 0]
    /\ boat_pos = [w \in Workers |-> 1]
    /\ total_messages_sent = [w \in Workers |-> 0]
    /\ result = [w \in Workers |-> 0]
    /\ message_data = [w \in Workers |-> None]
    /\ emitted = <<>>
    /\ visits = <<>>
    /\ first_age = <<>>
    /\ setup_failed = FALSE
    /\ utc_now = 0

\* the barrier producer is another program: it has no thread here
NoProducerThreads ==
    /\ reader_len = <<>>
    /\ thread_pc = <<>>
    /\ thread_i = <<>>
    /\ thread_sent_count = <<>>
    /\ barrier_count = 0
    /\ barrier_state = "filling"
    /\ join_pos = 1

\* nor do the stress-test producer and the two-boat producer run here
NoOtherProducer ==
    /\ stress = <<>>
    /\ race = <<>>

NothingRun == SimulatorNotRun /\ NoProducerThreads /\ NoOtherProducer

Init ==
    /\ N_BOATS \in 1..MaxBoats
    /\ MAX_WORKER_THREADS \in 1..MaxWorkers
    /\ END_ROW = MaxEndRow
    /\ Datasets
    /\ NothingRun

\* ------------------------------------------------------------------------
\* Orchestrator
\* ------------------------------------------------------------------------
\* main(): boats_per_thread = calculate_boats_per_thread()
Calculate ==
    /\ main_pc = "calc"
    /\ BOATS_PER_THREAD' = calculate_boats_per_thread(N_BOATS, MAX_WORKER_THREADS)
    /\ main_pc' = "create"
    /\ UNCHANGED <<config_vars, next_boat_id, submitted, collected,
                   total_messages, boat_queue, boats, worker_vars,
                   emitted, visits,
                   first_age, outside_vars>>

\* put on a LIFO queue: the newest boat is the next one out
put_lifo(q, boat_id) == <<boat_id>> \o q

\* boat_queue.put(boat_state) on the FIFO queue.Queue
put(q, boat_id) == Append(q, boat_id)

\* one iteration of the creation loop: construct the boat and enqueue it
CreateBoat ==
    /\ main_pc = "create"
    /\ next_boat_id <= N_BOATS
    /\ \E f \in DOMAIN file_rows :
          boats' = Append(boats, NewBoat(next_boat_id, f))
    /\ boat_queue' = put(boat_queue, next_boat_id)
    /\ emitted' = Append(emitted, <<>>)
    /\ visits' = Append(visits, 0)
    /\ first_age' = Append(first_age, 0)
    /\ next_boat_id' = next_boat_id + 1
    /\ UNCHANGED <<config_vars, BOATS_PER_THREAD, main_pc, submitted,
                   collected, total_messages, worker_vars, outside_vars>>

\* the creation loop over range(1, N_BOATS)
creation_loop_done_early == next_boat_id >= N_BOATS

\* the creation loop over range(1, N_BOATS + 1) is exhausted
creation_loop_done == next_boat_id > N_BOATS

\* the creation loop ends, the executor is entered
CreateDone ==
    /\ main_pc = "create"
    /\ creation_loop_done
    /\ main_pc' = "submit"
    /\ UNCHANGED <<config_vars, BOATS_PER_THREAD, next_boat_id, submitted,
                   collected, total_messages, boat_queue, boats, worker_vars,
                   emitted, visits,
                   first_age, outside_vars>>

\* futures = [executor.submit(worker_thread_simulation) for ...]: all the
\* tasks are handed to the pool; each starts when a pool thread takes it
Submit ==
    /\ main_pc = "submit"
    /\ submitted' = MAX_WORKER_THREADS
    /\ pc' = [w \in Workers |-> "submitted"]
    /\ main_pc' = "collect"
    /\ UNCHANGED <<config_vars, BOATS_PER_THREAD, next_boat_id, collected,
                   total_messages, boat_queue, boats, local_boats, max_rounds,
                   round_index, boat_pos, total_messages_sent, result,
                   emitted, visits,
                   first_age, message_data, outside_vars>>

\* the task of worker w has ended, by a return or by an exception
TaskEnded(w) == pc[w] \in {"done", "no_sink", "raised"}

\* as_completed yields an ended future; future.result() returns the task's
\* count, which is added to the total, or raises the task's exception,
\* which is printed and adds nothing
Collect(w) ==
    /\ main_pc = "collect"
    /\ w \notin collected
    /\ TaskEnded(w)
    /\ collected' = collected \cup {w}
    /\ total_messages' = IF pc[w] = "done" THEN total_messages + result[w]
                                           ELSE total_messages
    /\ UNCHANGED <<config_vars, BOATS_PER_THREAD, main_pc, next_boat_id,
                   submitted, boat_queue, boats, worker_vars, emitted,
                   visits,
                   first_age, outside_vars>>

\* the as_completed loop left at the first future it yields
first_completed == collected # {}

\* as_completed has yielded every future
as_completed_exhausted == collected = Workers

\* the executor block is left and the summary is printed
Report ==
    /\ main_pc = "collect"
    /\ as_completed_exhausted
    /\ main_pc' = "report"
    /\ UNCHANGED <<config_vars, BOATS_PER_THREAD, next_boat_id, submitted,
                   collected, total_messages, boat_queue, boats, worker_vars,
                   emitted, visits,
                   first_age, outside_vars>>

\* ------------------------------------------------------------------------
\* worker_thread_simulation
\* ------------------------------------------------------------------------
\* get_nowait that returns the head and leaves it in the queue
get_nowait_peek(q) == q

\* boat_queue.get_nowait(): the queue after its head has been removed
get_nowait(q) == Tail(q)

\* the claim loop with <= for <
claim_more_off_by_one(batch) == Len(batch) <= BOATS_PER_THREAD

\* the claim loop without the capacity test
claim_more_greedy(batch) == TRUE

\* the condition of the claim loop
claim_more(batch) == Len(batch) < BOATS_PER_THREAD

\* max_rounds taken from the first boat of the batch only
compute_max_rounds_first(batch, acc) ==
    Max(acc, Len(boats[Head(batch)].data_lines))

RECURSIVE compute_max_rounds(_, _)
\* for boat in local_boats: max_rounds = max(max_rounds, len(boat.data_lines))
compute_max_rounds(batch, acc) ==
    IF batch = <<>> THEN acc
    ELSE compute_max_rounds(Tail(batch),
                            Max(acc, Len(boats[Head(batch)].data_lines)))

\* the boat the inner loop of worker w is at
CurrentBoat(w) == local_boats[w][boat_pos[w]]

\* the loop position after the visit of the current boat
\* the round counter stepped at every visit
NextRoundIndexPerVisit(w) == round_index[w] + 1

NextRoundIndex(w) ==
    IF boat_pos[w] < Len(local_boats[w]) THEN round_index[w]
                                         ELSE round_index[w] + 1
NextBoatPos(w) ==
    IF boat_pos[w] < Len(local_boats[w]) THEN boat_pos[w] + 1 ELSE 1

\* a pool thread picks the task up: topic and producer are obtained and the
\* batch starts empty
StartWorker(w) ==
    /\ pc[w] = "submitted"
    /\ pc' = [pc EXCEPT ![w] = "claim"]
    /\ local_boats' = [local_boats EXCEPT ![w] = <<>>]
    /\ UNCHANGED <<config_vars, BOATS_PER_THREAD, main_vars, boat_queue,
                   boats, max_rounds, round_index, boat_pos,
                   total_messages_sent, result, emitted, visits,
                   first_age, message_data, outside_vars>>

\* one iteration of the claim loop in which get_nowait returns a boat
ClaimBoat(w) ==
    /\ pc[w] = "claim"
    /\ claim_more(local_boats[w])
    /\ boat_queue # <<>>
    /\ local_boats' = [local_boats EXCEPT ![w] = Append(@, Head(boat_queue))]
    /\ boat_queue' = get_nowait(boat_queue)
    /\ UNCHANGED <<config_vars, BOATS_PER_THREAD, main_vars, boats, pc,
                   max_rounds, round_index, boat_pos, total_messages_sent,
                   result, emitted, visits,
                   first_age, message_data, outside_vars>>

\* the claim loop ends (capacity reached, or queue.Empty); a worker without
\* boats returns 0, any other computes max_rounds and enters the round loop
ClaimEnd(w) ==
    /\ pc[w] = "claim"
    /\ ~claim_more(local_boats[w]) \/ boat_queue = <<>>
    /\ IF local_boats[w] = <<>>
         THEN /\ pc' = [pc EXCEPT ![w] = "done"]
              /\ result' = [result EXCEPT ![w] = 0]
              /\ UNCHANGED <<max_rounds, round_index, boat_pos,
                             total_messages_sent>>
         ELSE /\ pc' = [pc EXCEPT ![w] = "round"]
              /\ total_messages_sent' = [total_messages_sent EXCEPT ![w] = 0]
              /\ max_rounds' = [max_rounds EXCEPT
                                  ![w] = compute_max_rounds(local_boats[w], 0)]
              /\ round_index' = [round_index EXCEPT ![w] = 0]
              /\ boat_pos' = [boat_pos EXCEPT ![w] = 1]
              /\ UNCHANGED result
    /\ UNCHANGED <<config_vars, BOATS_PER_THREAD, main_vars, boat_queue,
                   boats, local_boats, emitted, visits,
                   first_age, message_data, outside_vars>>

\* a visit of a boat that has no next message: continue
VisitSkip(w) ==
    /\ pc[w] = "round"
    /\ round_index[w] < max_rounds[w]
    /\ ~has_next_message(boats[CurrentBoat(w)])
    /\ visits' = [visits EXCEPT ![CurrentBoat(w)] = @ + 1]
    /\ round_index' = [round_index EXCEPT ![w] = NextRoundIndex(w)]
    /\ boat_pos' = [boat_pos EXCEPT ![w] = NextBoatPos(w)]
    /\ UNCHANGED <<config_vars, BOATS_PER_THREAD, main_vars, boat_queue,
                   boats, pc, local_boats, max_rounds, total_messages_sent,
                   result, emitted,
                   first_age, message_data, outside_vars>>

\* get_next_message, producer.produce, total_messages_sent += 1, and the
\* step of the inner loop to the next boat
Send(w) ==
    LET b == CurrentBoat(w)
        boat == boats[b]
    IN  /\ boats' = [boats EXCEPT ![b] = get_next_message(boat)]
        /\ IF has_next_message(boat)
             THEN /\ emitted' = [emitted EXCEPT
                        ![b] = Append(@, [row |-> next_row(boat)])]
                  /\ total_messages_sent' =
                        [total_messages_sent EXCEPT ![w] = @ + 1]
                  /\ message_data' = [message_data EXCEPT
                        ![w] = get_next_message_return(boat, utc_now)]
             ELSE UNCHANGED <<emitted, total_messages_sent, message_data>>
        /\ pc' = [pc EXCEPT ![w] = "round"]
        /\ round_index' = [round_index EXCEPT ![w] = NextRoundIndex(w)]
        /\ boat_pos' = [boat_pos EXCEPT ![w] = NextBoatPos(w)]

\* a visit of a boat that has a next message and whose rate gate is open:
\* the wait loop is not entered and the message is sent
VisitSend(w) ==
    /\ pc[w] = "round"
    /\ round_index[w] < max_rounds[w]
    /\ has_next_message(boats[CurrentBoat(w)])
    /\ can_send_now(boats[CurrentBoat(w)])
    /\ visits' = [visits EXCEPT ![CurrentBoat(w)] = @ + 1]
    /\ Send(w)
    /\ UNCHANGED <<config_vars, BOATS_PER_THREAD, main_vars, boat_queue,
                   local_boats, max_rounds, result,
                   first_age, outside_vars>>

\* a visit of a boat that has a next message and whose rate gate is closed:
\* the worker sleeps in the wait loop
VisitWait(w) ==
    /\ pc[w] = "round"
    /\ round_index[w] < max_rounds[w]
    /\ has_next_message(boats[CurrentBoat(w)])
    /\ ~can_send_now(boats[CurrentBoat(w)])
    /\ visits' = [visits EXCEPT ![CurrentBoat(w)] = @ + 1]
    /\ pc' = [pc EXCEPT ![w] = "wait"]
    /\ UNCHANGED <<config_vars, BOATS_PER_THREAD, main_vars, boat_queue,
                   boats, local_boats, max_rounds, round_index, boat_pos,
                   total_messages_sent, result, emitted,
                   first_age, message_data, outside_vars>>

\* the wait loop finds the gate open and the message is sent
WaitSend(w) ==
    /\ pc[w] = "wait"
    /\ can_send_now(boats[CurrentBoat(w)])
    /\ Send(w)
    /\ UNCHANGED <<config_vars, BOATS_PER_THREAD, main_vars, boat_queue,
                   local_boats, max_rounds, result, visits,
                   first_age, outside_vars>>

\* the round loop is exhausted: producer.stop(), return total_messages_sent
WorkerFinish(w) ==
    /\ pc[w] = "round"
    /\ round_index[w] >= max_rounds[w]
    /\ pc' = [pc EXCEPT ![w] = "done"]
    /\ result' = [result EXCEPT ![w] = total_messages_sent[w]]
    /\ UNCHANGED <<config_vars, BOATS_PER_THREAD, main_vars, boat_queue,
                   boats, local_boats, max_rounds, round_index, boat_pos,
                   total_messages_sent, emitted, visits,
                   first_age, message_data, outside_vars>>

\* ------------------------------------------------------------------------
\* Failures: a dataset that cannot be opened, a sink that cannot be reached
\* when a worker starts, a publish call that raises
\* ------------------------------------------------------------------------
\* exit(1) with the failure swallowed: setup goes on to start the pool
exit_ignored == "submit"

\* exit(1), or the uncaught exception of open(): the process ends
exit_1 == "aborted"

\* open() fails in preload_csv_files or in the load_data of the boat that
\* the creation loop is constructing
SetupFails ==
    /\ main_pc = "create"
    /\ next_boat_id <= N_BOATS
    /\ setup_failed' = TRUE
    /\ main_pc' = exit_1
    /\ UNCHANGED <<config_vars, BOATS_PER_THREAD, next_boat_id, submitted,
                   collected, total_messages, boat_queue, boats, worker_vars,
                   emitted, visits, first_age, utc_now, producer_vars,
                   stress, race>>

\* client.topics[...] or get_sync_producer() raises after the batch has
\* been claimed
StartRaisesAfterClaim(w) ==
    /\ pc[w] = "claim"
    /\ local_boats[w] # <<>>
    /\ pc' = [pc EXCEPT ![w] = "no_sink"]
    /\ UNCHANGED <<config_vars, BOATS_PER_THREAD, main_vars, boat_queue,
                   boats, local_boats, max_rounds, round_index, boat_pos,
                   total_messages_sent, result, emitted, visits,
                   first_age, message_data, outside_vars>>

\* client.topics[...] or get_sync_producer() raises: the task ends with the
\* exception before its claim loop
StartRaises(w) ==
    /\ pc[w] = "submitted"
    /\ pc' = [pc EXCEPT ![w] = "no_sink"]
    /\ UNCHANGED <<config_vars, BOATS_PER_THREAD, main_vars, boat_queue,
                   boats, local_boats, max_rounds, round_index, boat_pos,
                   total_messages_sent, result, emitted, visits,
                   first_age, message_data, outside_vars>>

\* the gate of the current boat is open, get_next_message has advanced the
\* boat, and producer.produce raises: nothing in worker_thread_simulation
\* catches it, so the task ends with the exception
ProduceRaises(w) ==
    /\ pc[w] \in {"round", "wait"}
    /\ pc[w] = "round" => round_index[w] < max_rounds[w]
    /\ has_next_message(boats[CurrentBoat(w)])
    /\ can_send_now(boats[CurrentBoat(w)])
    /\ visits' = IF pc[w] = "round"
                   THEN [visits EXCEPT ![CurrentBoat(w)] = @ + 1]
                   ELSE visits
    /\ boats' = [boats EXCEPT
                    ![CurrentBoat(w)] = get_next_message(boats[CurrentBoat(w)])]
    /\ message_data' = [message_data EXCEPT
                            ![w] = get_next_message_return(boats[CurrentBoat(w)],
                                                           utc_now)]
    /\ pc' = [pc EXCEPT ![w] = "raised"]
    /\ UNCHANGED <<config_vars, BOATS_PER_THREAD, main_vars, boat_queue,
                   local_boats, max_rounds, round_index, boat_pos,
                   total_messages_sent, result, emitted,
                   first_age, outside_vars>>

\* ------------------------------------------------------------------------
\* The clock.  time.time() is read only to compare it with last_send_time,
\* so the model keeps, for every boat, the time since its last_send_time,
\* up to RateInterval (from there on can_send_now holds), and, for the
\* history, the time since its first emission, up to SpanCap.
\* ------------------------------------------------------------------------
SpanCap == (MaxEndRow + 1 - START_ROW) * RateInterval

\* the clock stands still while the workers sleep
TickStalled ==
    /\ \E w \in Workers :
          pc[w] = "wait" /\ ~can_send_now(boats[CurrentBoat(w)])
    /\ UNCHANGED vars

\* the clock advances while some worker sleeps in its wait loop
Tick ==
    /\ \E w \in Workers :
          pc[w] = "wait" /\ ~can_send_now(boats[CurrentBoat(w)])
    /\ boats' = [b \in Created |->
                    [boats[b] EXCEPT !.since_last_send =
                                        Min(@ + TickStep, RateInterval)]]
    /\ UNCHANGED <<config_vars, BOATS_PER_THREAD, main_vars, boat_queue,
                   worker_vars, emitted, visits, first_age, outside_vars>>

\* Tick, with the wall clock and the time since the first emission of
\* every boat recorded
TickSpan ==
    /\ \E w \in Workers :
          pc[w] = "wait" /\ ~can_send_now(boats[CurrentBoat(w)])
    /\ boats' = [b \in Created |->
                    [boats[b] EXCEPT !.since_last_send =
                                        Min(@ + TickStep, RateInterval)]]
    /\ first_age' = [b \in Created |->
                        IF boats[b].sent_count = 0 THEN 0
                        ELSE Min(first_age[b] + TickStep, SpanCap)]
    /\ utc_now' = utc_now + TickStep
    /\ UNCHANGED <<config_vars, BOATS_PER_THREAD, main_vars, boat_queue,
                   worker_vars, emitted, visits, setup_failed, producer_vars,
                   stress, race>>

Next ==
    \/ Calculate
    \/ CreateBoat
    \/ CreateDone
    \/ Submit
    \/ \E w \in Workers : Collect(w)
    \/ Report
    \/ \E w \in Workers : StartWorker(w)
    \/ \E w \in Workers : ClaimBoat(w)
    \/ \E w \in Workers : ClaimEnd(w)
    \/ \E w \in Workers : VisitSkip(w)
    \/ \E w \in Workers : VisitSend(w)
    \/ \E w \in Workers : VisitWait(w)
    \/ \E w \in Workers : WaitSend(w)
    \/ \E w \in Workers : WorkerFinish(w)
    \/ Tick

Spec == Init /\ [][Next]_vars

\* The same program with the span history recorded by the clock
NextSpan ==
    \/ Calculate
    \/ CreateBoat
    \/ CreateDone
    \/ Submit
    \/ \E w \in Workers : Collect(w)
    \/ Report
    \/ \E w \in Workers : StartWorker(w)
    \/ \E w \in Workers : ClaimBoat(w)
    \/ \E w \in Workers : ClaimEnd(w)
    \/ \E w \in Workers : VisitSkip(w)
    \/ \E w \in Workers : VisitSend(w)
    \/ \E w \in Workers : VisitWait(w)
    \/ \E w \in Workers : WaitSend(w)
    \/ \E w \in Workers : WorkerFinish(w)
    \/ TickSpan

\* one boat and one worker less, a window one row longer
InitSpan ==
    /\ N_BOATS \in 1..(MaxBoats - 1)
    /\ MAX_WORKER_THREADS \in 1..(MaxWorkers - 1)
    /\ END_ROW = MaxEndRow + 1
    /\ Datasets
    /\ NothingRun

SpecSpan == InitSpan /\ [][NextSpan]_vars

\* The same program under the scheduling that the claims on termination
\* assume: the orchestrator and every pool thread keep being scheduled, and
\* the clock keeps advancing while a worker sleeps; no call fails.  One
\* boat less, and the short dataset without a row to load
InitFair ==
    /\ N_BOATS \in 1..(MaxBoats - 1)
    /\ MAX_WORKER_THREADS \in 1..MaxWorkers
    /\ END_ROW = MaxEndRow
    /\ Datasets
    /\ file_rows[2] = START_ROW
    /\ NothingRun

\* a step of the orchestrator
MainStep ==
    \/ Calculate \/ CreateBoat \/ CreateDone \/ Submit \/ Report
    \/ \E w \in Workers : Collect(w)

\* a step of the task of worker w
WorkerStep(w) ==
    /\ w \in Workers
    /\ \/ StartWorker(w) \/ ClaimBoat(w) \/ ClaimEnd(w) \/ VisitSkip(w)
       \/ VisitSend(w) \/ VisitWait(w) \/ WaitSend(w) \/ WorkerFinish(w)

Fairness ==
    /\ WF_vars(MainStep)
    /\ \A w \in 1..MaxWorkers : WF_vars(WorkerStep(w))
    /\ WF_vars(Tick)

SpecFair == InitFair /\ [][Next]_vars /\ Fairness

\* The same program with the failures
NextFault ==
    \/ Calculate
    \/ CreateBoat
    \/ CreateDone
    \/ SetupFails
    \/ Submit
    \/ \E w \in Workers : Collect(w)
    \/ Report
    \/ \E w \in Workers : StartWorker(w)
    \/ \E w \in Workers : StartRaises(w)
    \/ \E w \in Workers : ClaimBoat(w)
    \/ \E w \in Workers : ClaimEnd(w)
    \/ \E w \in Workers : VisitSkip(w)
    \/ \E w \in Workers : VisitSend(w)
    \/ \E w \in Workers : VisitWait(w)
    \/ \E w \in Workers : WaitSend(w)
    \/ \E w \in Workers : ProduceRaises(w)
    \/ \E w \in Workers : WorkerFinish(w)
    \/ Tick

\* one boat less, and the short dataset one row short of the window
InitFault ==
    /\ N_BOATS \in 1..(MaxBoats - 1)
    /\ MAX_WORKER_THREADS \in 1..MaxWorkers
    /\ END_ROW = MaxEndRow
    /\ Datasets
    /\ file_rows[2] = END_ROW - 1
    /\ NothingRun

SpecFault == InitFault /\ [][NextFault]_vars

\* One worker with three boats on three datasets that give 5, 3 and 7 rows
ScenarioRows == <<5, 3, 7>>

InitScenario ==
    /\ N_BOATS = Len(ScenarioRows)
    /\ MAX_WORKER_THREADS = 1
    /\ END_ROW = START_ROW +
                   (CHOOSE m \in {ScenarioRows[f] : f \in DOMAIN ScenarioRows} :
                       \A f \in DOMAIN ScenarioRows : ScenarioRows[f] <= m)
    /\ file_rows = [f \in DOMAIN ScenarioRows |-> START_ROW + ScenarioRows[f]]
    /\ NothingRun

SpecScenario == InitScenario /\ [][Next]_vars

\* The setup of a fleet whose boat ids outgrow three digits: one dataset,
\* one row per boat, up to the start of the pool
InitIds ==
    /\ N_BOATS = WideFleet
    /\ MAX_WORKER_THREADS = 1
    /\ END_ROW = START_ROW + 1
    /\ file_rows = <<END_ROW>>
    /\ NothingRun

NextIds ==
    \/ Calculate
    \/ CreateBoat
    \/ CreateDone

SpecIds == InitIds /\ [][NextIds]_vars

\* The setup and the claim loops of a full pool, up to the moment every
\* worker has its batch: a fleet that the pool's capacity just misses, and
\* one that gives concurrent claimers batches of more than one boat
InitClaim ==
    /\ N_BOATS \in MaxBoats..(MaxBoats + 1)
    /\ MAX_WORKER_THREADS = MaxWorkers
    /\ END_ROW = MaxEndRow
    /\ Datasets
    /\ NothingRun

NextClaim ==
    \/ Calculate
    \/ CreateBoat
    \/ CreateDone
    \/ Submit
    \/ \E w \in Workers : StartWorker(w)
    \/ \E w \in Workers : ClaimBoat(w)
    \/ \E w \in Workers : ClaimEnd(w)

SpecClaim == InitClaim /\ [][NextClaim]_vars

\* ------------------------------------------------------------------------
\* The barrier producer (KafkaProducerThread_single.py, and
\* KafkaProducerThread.py with the same loop): one thread per dataset, each
\* publishing its rows and meeting the others at barrier.wait() after
\* every record.  threading.Barrier(parties): wait() blocks while the
\* barrier drains, counts the caller in, and either trips the barrier (the
\* caller is the last of the parties) or blocks until it has tripped; every
\* thread counts itself out when it leaves, the last one reopens the
\* barrier.
\* ------------------------------------------------------------------------
Threads == 1..NumThreads

\* threading.Barrier(num_threads - 1)
barrier_parties_short == NumThreads - 1

\* barrier = threading.Barrier(num_threads)
barrier_parties == NumThreads

\* range(start_row, min(end_row, len(reader))) has an index left
rows_left(t) == thread_i[t] < Min(PRODUCER_END_ROW, reader_len[t])

InitBarrier ==
    /\ N_BOATS = 1
    /\ MAX_WORKER_THREADS = 1
    /\ END_ROW = MaxEndRow
    /\ file_rows = [f \in Files |-> START_ROW]
    /\ SimulatorNotRun
    /\ NoOtherProducer
    /\ reader_len \in [Threads -> 0..MaxReaderLen]
    /\ thread_pc = [t \in Threads |-> "started"]
    /\ thread_i = [t \in Threads |-> START_ROW]
    /\ thread_sent_count = [t \in Threads |-> 0]
    /\ barrier_count = 0
    /\ barrier_state = "filling"
    /\ join_pos = 1

simulator_vars == <<config_vars, BOATS_PER_THREAD, main_vars, boat_queue,
                    boats, worker_vars, emitted, visits, first_age,
                    setup_failed, utc_now>>

\* topic, producer, open() and list(csv.DictReader(file)) succeed
ThreadOpens(t) ==
    /\ thread_pc[t] = "started"
    /\ thread_pc' = [thread_pc EXCEPT ![t] = "loop"]
    /\ UNCHANGED <<simulator_vars, stress, race, join_pos,
                   reader_len, thread_i, thread_sent_count,
                   barrier_count, barrier_state>>

\* one of them raises; the thread's except clause prints it and the thread
\* ends ("failed")
ThreadOpenFails(t) ==
    /\ thread_pc[t] = "started"
    /\ thread_pc' = [thread_pc EXCEPT ![t] = "failed"]
    /\ UNCHANGED <<simulator_vars, stress, race, join_pos,
                   reader_len, thread_i, thread_sent_count,
                   barrier_count, barrier_state>>

\* one pass of the loop body up to the barrier: the row is stamped and
\* published, sent_count += 1, sleep
Publish(t) ==
    /\ thread_pc[t] = "loop"
    /\ rows_left(t)
    /\ thread_sent_count' = [thread_sent_count EXCEPT ![t] = @ + 1]
    /\ thread_pc' = [thread_pc EXCEPT ![t] = "at_barrier"]
    /\ UNCHANGED <<simulator_vars, stress, race, join_pos,
                   reader_len, thread_i, barrier_count,
                   barrier_state>>

\* producer.produce raises: the thread ends without reaching the barrier
PublishFails(t) ==
    /\ thread_pc[t] = "loop"
    /\ rows_left(t)
    /\ thread_pc' = [thread_pc EXCEPT ![t] = "failed"]
    /\ UNCHANGED <<simulator_vars, stress, race, join_pos,
                   reader_len, thread_i, thread_sent_count,
                   barrier_count, barrier_state>>

\* the range is exhausted: producer.stop(), the thread ends
LoopEnds(t) ==
    /\ thread_pc[t] = "loop"
    /\ ~rows_left(t)
    /\ thread_pc' = [thread_pc EXCEPT ![t] = "ended"]
    /\ UNCHANGED <<simulator_vars, stress, race, join_pos,
                   reader_len, thread_i, thread_sent_count,
                   barrier_count, barrier_state>>

\* barrier.wait() by a thread that is not the last of the parties: it is
\* counted in and blocks
BarrierWait(t) ==
    /\ thread_pc[t] = "at_barrier"
    /\ barrier_state = "filling"
    /\ barrier_count + 1 # barrier_parties
    /\ barrier_count' = barrier_count + 1
    /\ thread_pc' = [thread_pc EXCEPT ![t] = "blocked"]
    /\ UNCHANGED <<simulator_vars, stress, race, join_pos,
                   reader_len, thread_i, thread_sent_count,
                   barrier_state>>

\* barrier.wait() by the last of the parties: the barrier trips and the
\* caller leaves it at once; it stays draining while others are inside
BarrierTrip(t) ==
    /\ thread_pc[t] = "at_barrier"
    /\ barrier_state = "filling"
    /\ barrier_count + 1 = barrier_parties
    /\ barrier_state' = IF barrier_count = 0 THEN "filling" ELSE "draining"
    /\ thread_pc' = [thread_pc EXCEPT ![t] = "loop"]
    /\ thread_i' = [thread_i EXCEPT ![t] = @ + 1]
    /\ UNCHANGED <<simulator_vars, stress, race, join_pos,
                   reader_len, thread_sent_count,
                   barrier_count>>

\* a blocked thread finds the barrier tripped and leaves it; the last one
\* out reopens it
BarrierLeave(t) ==
    /\ thread_pc[t] = "blocked"
    /\ barrier_state = "draining"
    /\ barrier_count' = barrier_count - 1
    /\ barrier_state' = IF barrier_count = 1 THEN "filling" ELSE "draining"
    /\ thread_pc' = [thread_pc EXCEPT ![t] = "loop"]
    /\ thread_i' = [thread_i EXCEPT ![t] = @ + 1]
    /\ UNCHANGED <<simulator_vars, stress, race, join_pos,
                   reader_len, thread_sent_count>>

\* the function has returned, after its loop or from its except clause
ThreadOver(t) == thread_pc[t] \in {"ended", "failed"}

\* main: thread.join() returns for the next thread of the list; after the
\* last one the completion message is printed
JoinThread ==
    /\ join_pos <= NumThreads
    /\ ThreadOver(join_pos)
    /\ join_pos' = join_pos + 1
    /\ UNCHANGED <<simulator_vars, stress, race, reader_len, thread_pc,
                   thread_i, thread_sent_count, barrier_count, barrier_state>>

NextBarrier ==
    \/ \E t \in Threads : ThreadOpens(t)
    \/ \E t \in Threads : ThreadOpenFails(t)
    \/ \E t \in Threads : Publish(t)
    \/ \E t \in Threads : PublishFails(t)
    \/ \E t \in Threads : LoopEnds(t)
    \/ \E t \in Threads : BarrierWait(t)
    \/ \E t \in Threads : BarrierTrip(t)
    \/ \E t \in Threads : BarrierLeave(t)
    \/ JoinThread

SpecBarrier == InitBarrier /\ [][NextBarrier]_vars

\* a step of thread t in which nothing raises
ThreadStep(t) ==
    \/ ThreadOpens(t) \/ Publish(t) \/ LoopEnds(t)
    \/ BarrierWait(t) \/ BarrierTrip(t) \/ BarrierLeave(t)

\* every thread, and main, keeps being scheduled
BarrierFairness ==
    /\ \A t \in Threads : WF_vars(ThreadStep(t))
    /\ WF_vars(JoinThread)

\* the barrier producer, with the failures, under that scheduling
SpecBarrierFair == SpecBarrier /\ BarrierFairness

\* the barrier producer when nothing raises
NextBarrierRuns ==
    \/ \E t \in Threads : ThreadOpens(t)
    \/ \E t \in Threads : Publish(t)
    \/ \E t \in Threads : LoopEnds(t)
    \/ \E t \in Threads : BarrierWait(t)
    \/ \E t \in Threads : BarrierTrip(t)
    \/ \E t \in Threads : BarrierLeave(t)
    \/ JoinThread

SpecBarrierRuns ==
    InitBarrier /\ [][NextBarrierRuns]_vars /\ BarrierFairness

\* ------------------------------------------------------------------------
\* The stress-test producer (stress_test_producer.py): main() sends, batch
\* after batch, one message per boat name built from one row of the
\* reference dataset, each message by a task of a thread pool that lives
\* for the batch.  stress holds the locals of main(); stress.produced[k] is
\* the bag of the messages handed to producer.produce during batch k and
\* stress.completed the number of produce calls that have returned.
\* ------------------------------------------------------------------------
REFERENCE_BOAT == "ITA"

\* boat_names = [f"BOAT_{i+1:03d}" for i in range(args.boats)]
boat_names(n) == [i \in 1..n |-> unique_boat_id(i)]

\* csv_data[k] of list(csv.DictReader(file)): the (k+1)-th data row
csv_data(k) == csv_row(REFERENCE_BOAT, k + 1)

\* the message that send_boat_message builds from row_data
boat_row_data(row_data, boat_name, current_time) ==
    [row_data EXCEPT !.boat = boat_name,
                     !.time = current_time,
                     !.timestamp = current_time]

\* the bag b with one more copy of e
BagAdd(b, e) ==
    IF e \in DOMAIN b THEN [b EXCEPT ![e] = @ + 1]
    ELSE [x \in DOMAIN b \cup {e} |-> IF x = e THEN 1 ELSE b[x]]

InitStress ==
    /\ N_BOATS = 1
    /\ MAX_WORKER_THREADS = 1
    /\ END_ROW = MaxEndRow
    /\ file_rows = [f \in Files |-> START_ROW]
    /\ SimulatorNotRun
    /\ NoProducerThreads
    /\ race = <<>>
    /\ \E n \in 1..MaxStressBoats, rows \in 0..MaxStressRows,
          limited \in BOOLEAN :
          stress = [boats |-> n,
                    duration |-> limited,
                    total_rows |-> rows,
                    pc |-> "loop",
                    current_row_index |-> 0,
                    total_messages_sent |-> 0,
                    batch_count |-> 0,
                    row_data |-> None,
                    futures |-> <<>>,
                    future_pos |-> 1,
                    messages_sent_in_batch |-> 0,
                    produced |-> <<>>,
                    completed |-> 0]

not_stress == <<simulator_vars, producer_vars, race>>

\* a duration was given and its end is reached at the top of the loop:
\* break
DurationEnds ==
    /\ stress.pc = "loop"
    /\ stress.duration
    /\ stress' = [stress EXCEPT !.pc = "final"]
    /\ UNCHANGED not_stress

\* current_row_index >= total_rows: break
EndOfData ==
    /\ stress.pc = "loop"
    /\ stress.current_row_index >= stress.total_rows
    /\ stress' = [stress EXCEPT !.pc = "final"]
    /\ UNCHANGED not_stress

\* the top of a batch: row_data is taken, the executor is created and one
\* send_boat_message task per boat name is submitted
BatchStart ==
    /\ stress.pc = "loop"
    /\ stress.current_row_index < stress.total_rows
    /\ stress' = [stress EXCEPT
          !.row_data = csv_data(stress.current_row_index),
          !.futures = [i \in 1..stress.boats |-> "pending"],
          !.future_pos = 1,
          !.messages_sent_in_batch = 0,
          !.produced = Append(@, <<>>),
          !.pc = "collect"]
    /\ UNCHANGED not_stress

\* the task of the i-th boat name runs: it copies row_data as it is now,
\* sets the name and the time and hands the message to producer.produce,
\* which returns (the task returns 1) or raises (the task ends with the
\* exception)
SendBoatMessage(i) ==
    /\ stress.pc \in {"collect", "exit"}
    /\ i \in DOMAIN stress.futures
    /\ stress.futures[i] = "pending"
    /\ \E returns \in BOOLEAN :
          stress' = [stress EXCEPT
              !.produced[Len(stress.produced)] =
                  BagAdd(@, boat_row_data(stress.row_data,
                                          boat_names(stress.boats)[i],
                                          utc_now)),
              !.futures[i] = IF returns THEN "returned" ELSE "raised",
              !.completed = IF returns THEN @ + 1 ELSE @]
    /\ UNCHANGED not_stress

\* future.result(timeout=0.04) returns the task's 1
ResultReturns ==
    /\ stress.pc = "collect"
    /\ stress.future_pos <= stress.boats
    /\ stress.futures[stress.future_pos] = "returned"
    /\ stress' = [stress EXCEPT !.messages_sent_in_batch = @ + 1,
                                !.future_pos = @ + 1]
    /\ UNCHANGED not_stress

\* future.result raises the task's exception, which is printed
ResultRaises ==
    /\ stress.pc = "collect"
    /\ stress.future_pos <= stress.boats
    /\ stress.futures[stress.future_pos] = "raised"
    /\ stress' = [stress EXCEPT !.future_pos = @ + 1]
    /\ UNCHANGED not_stress

\* the task has not ended when the 40 ms have passed: future.result raises
\* TimeoutError, which is printed; the task goes on
ResultTimesOut ==
    /\ stress.pc = "collect"
    /\ stress.future_pos <= stress.boats
    /\ stress.futures[stress.future_pos] = "pending"
    /\ stress' = [stress EXCEPT !.future_pos = @ + 1]
    /\ UNCHANGED not_stress

\* the loop over the futures is exhausted:
\* total_messages_sent += messages_sent_in_batch
AddBatch ==
    /\ stress.pc = "collect"
    /\ stress.future_pos > stress.boats
    /\ stress' = [stress EXCEPT
          !.total_messages_sent = @ + stress.messages_sent_in_batch,
          !.pc = "exit"]
    /\ UNCHANGED not_stress

\* the with block left by shutdown(wait=False)
shutdown_nowait == TRUE

\* the with block is left by executor.shutdown(wait=True): every task of
\* the batch has ended
shutdown_wait ==
    \A i \in DOMAIN stress.futures : stress.futures[i] # "pending"

\* the executor is left, current_row_index += 1, batch_count += 1, and the
\* rest of the batch interval is slept
BatchEnd ==
    /\ stress.pc = "exit"
    /\ shutdown_wait
    /\ stress' = [stress EXCEPT !.current_row_index = @ + 1,
                                !.batch_count = @ + 1,
                                !.pc = "loop"]
    /\ UNCHANGED not_stress

NextStress ==
    \/ DurationEnds
    \/ EndOfData
    \/ BatchStart
    \/ \E i \in 1..MaxStressBoats : SendBoatMessage(i)
    \/ ResultReturns
    \/ ResultRaises
    \/ ResultTimesOut
    \/ AddBatch
    \/ BatchEnd

SpecStress == InitStress /\ [][NextStress]_vars

\* ------------------------------------------------------------------------
\* The two-boat producer (kafka_boat_producer.py): main() tests the
\* connection, runs process_boat_data for the two boats as two pool tasks,
\* reads both results and prints their sum.  race holds main's position
\* and locals; race.task[t] holds, for the task of boat t, its position,
\* the number of rows left by filter_data, the locals of send_to_kafka, the
\* log of its produce calls and what the task returned.
\* ------------------------------------------------------------------------
RaceBoats == {1, 2}

NewTask(n) ==
    [pc |-> "unsubmitted", rows |-> n, i |-> 0, sent_count |-> 0,
     attempts |-> <<>>, sent |-> None, error |-> FALSE, result |-> None]

InitRace ==
    /\ N_BOATS = 1
    /\ MAX_WORKER_THREADS = 1
    /\ END_ROW = MaxEndRow
    /\ file_rows = [f \in Files |-> START_ROW]
    /\ SimulatorNotRun
    /\ NoProducerThreads
    /\ stress = <<>>
    /\ \E n \in [RaceBoats -> 0..MaxRaceRows] :
          race = [pc |-> "test",
                  task |-> [t \in RaceBoats |-> NewTask(n[t])],
                  sent1 |-> None,
                  sent2 |-> None,
                  total_sent |-> None]

not_race == <<simulator_vars, producer_vars, stress>>

\* main: test_producer = setup_kafka_producer(); test_producer.stop().  If
\* it raises, main prints the fatal error and ends
TestConnection ==
    /\ race.pc = "test"
    /\ \E ok \in BOOLEAN :
          race' = [race EXCEPT !.pc = IF ok THEN "submit" ELSE "fatal"]
    /\ UNCHANGED not_race

\* main: both tasks are submitted to the executor
SubmitBoth ==
    /\ race.pc = "submit"
    /\ race' = [race EXCEPT !.pc = "result1",
                            !.task = [t \in RaceBoats |->
                                         [race.task[t] EXCEPT !.pc = "setup"]]]
    /\ UNCHANGED not_race

\* an exception reaches the except clause of process_boat_data: return 0
return_0(task) == [task EXCEPT !.pc = "returned", !.error = TRUE, !.result = 0]

\* process_boat_data: setup_kafka_producer() returns or raises
TaskSetup(t) ==
    /\ race.task[t].pc = "setup"
    /\ \E ok \in BOOLEAN :
          race' = [race EXCEPT !.task[t] =
                      IF ok THEN [@ EXCEPT !.pc = "load"] ELSE return_0(@)]
    /\ UNCHANGED not_race

\* process_boat_data: load_boat_data and filter_data return or raise
TaskLoad(t) ==
    /\ race.task[t].pc = "load"
    /\ \E ok \in BOOLEAN :
          race' = [race EXCEPT !.task[t] =
                      IF ok THEN [@ EXCEPT !.pc = "send"] ELSE return_0(@)]
    /\ UNCHANGED not_race

\* send_to_kafka with no row: return 0
SendNothing(t) ==
    /\ race.task[t].pc = "send"
    /\ race.task[t].rows = 0
    /\ race' = [race EXCEPT !.task[t] = [@ EXCEPT !.pc = "stop", !.sent = 0]]
    /\ UNCHANGED not_race

\* sent_count += 1 before the produce call
sent_count_before(sent_count, ok) == sent_count + 1

\* sent_count += 1 after produce and sleep, inside the try
sent_count_after(sent_count, ok) ==
    IF ok THEN sent_count + 1 ELSE sent_count

\* send_to_kafka: one pass of the loop: the row is handed to
\* producer.produce, which returns or raises; the except clause inside the
\* loop prints the failure
SendRow(t) ==
    /\ race.task[t].pc = "send"
    /\ race.task[t].i < race.task[t].rows
    /\ \E ok \in BOOLEAN :
          race' = [race EXCEPT !.task[t] =
                      [@ EXCEPT !.attempts = Append(@, [row |-> race.task[t].i,
                                                         ok |-> ok]),
                                !.sent_count = sent_count_after(@, ok),
                                !.i = @ + 1]]
    /\ UNCHANGED not_race

\* send_to_kafka: the loop is exhausted: return sent_count
SendDone(t) ==
    /\ race.task[t].pc = "send"
    /\ race.task[t].rows > 0
    /\ race.task[t].i >= race.task[t].rows
    /\ race' = [race EXCEPT !.task[t] =
                   [@ EXCEPT !.pc = "stop", !.sent = race.task[t].sent_count]]
    /\ UNCHANGED not_race

\* process_boat_data: producer.stop() returns, return sent_count; or it
\* raises
TaskStop(t) ==
    /\ race.task[t].pc = "stop"
    /\ \E ok \in BOOLEAN :
          race' = [race EXCEPT !.task[t] =
                      IF ok THEN [@ EXCEPT !.pc = "returned",
                                           !.result = race.task[t].sent]
                            ELSE return_0(@)]
    /\ UNCHANGED not_race

\* main: sent1 = future1.result()
Result1 ==
    /\ race.pc = "result1"
    /\ race.task[1].pc = "returned"
    /\ race' = [race EXCEPT !.sent1 = race.task[1].result, !.pc = "result2"]
    /\ UNCHANGED not_race

\* main: sent2 = future2.result(); the executor is left;
\* total_sent = sent1 + sent2 and the summary
Result2 ==
    /\ race.pc = "result2"
    /\ race.task[2].pc = "returned"
    /\ race' = [race EXCEPT !.sent2 = race.task[2].result,
                            !.total_sent = race.sent1 + race.task[2].result,
                            !.pc = "summary"]
    /\ UNCHANGED not_race

NextRace ==
    \/ TestConnection
    \/ SubmitBoth
    \/ \E t \in RaceBoats : TaskSetup(t)
    \/ \E t \in RaceBoats : TaskLoad(t)
    \/ \E t \in RaceBoats : SendNothing(t)
    \/ \E t \in RaceBoats : SendRow(t)
    \/ \E t \in RaceBoats : SendDone(t)
    \/ \E t \in RaceBoats : TaskStop(t)
    \/ Result1
    \/ Result2

SpecRace == InitRace /\ [][NextRace]_vars

\* ------------------------------------------------------------------------
\* Vocabulary of the claims
\* ------------------------------------------------------------------------
Range(q) == {q[i] : i \in DOMAIN q}
Batch(w) == Range(local_boats[w])
Claimed == UNION {Batch(w) : w \in Workers}
Capacity == MAX_WORKER_THREADS * BOATS_PER_THREAD
AllWorkersDone == \A w \in Workers : pc[w] = "done"
Rows(b) == Len(boats[b].data_lines)
InRounds(w) == pc[w] \in {"round", "wait"}
LeftClaimLoop(w) == pc[w] \in {"round", "wait", "done"}

\* worker w takes the step
Acts(w) ==
    <<pc[w], local_boats[w], round_index[w], boat_pos[w]>>' #
    <<pc[w], local_boats[w], round_index[w], boat_pos[w]>>

\* a field of boat b is assigned in the step (last_send_time is assigned
\* when since_last_send restarts)
Written(b) ==
    \/ boats'[b].current_index # boats[b].current_index
    \/ boats'[b].sent_count # boats[b].sent_count
    \/ boats'[b].completed # boats[b].completed
    \/ boats'[b].since_last_send < boats[b].since_last_send

\* the longest row sequence of a batch
LongestRows(w) ==
    CHOOSE m \in {Rows(b) : b \in Batch(w)} : \A b \in Batch(w) : Rows(b) <= m

\* ------------------------------------------------------------------------
\* C1: if N <= W*C, every boat is claimed and simulated: when the workers
\* have finished, every boat has been dequeued, has completed = TRUE and
\* has all of its loaded rows published.
\* ------------------------------------------------------------------------
C1_AllSimulated ==
    (AllWorkersDone /\ N_BOATS <= Capacity) =>
        \A b \in 1..N_BOATS :
            /\ b \in Claimed
            /\ boats[b].completed
            /\ Len(emitted[b]) = Rows(b)

\* ------------------------------------------------------------------------
\* C2: if N > W*C, then when all workers have finished exactly N - W*C
\* boats are still in boat_queue, claimed by no worker, with no record
\* emitted.
\* ------------------------------------------------------------------------
C2_TailLeft ==
    (AllWorkersDone /\ N_BOATS > Capacity) =>
        /\ Len(boat_queue) = N_BOATS - Capacity
        /\ \A b \in Range(boat_queue) :
              /\ b \notin Claimed
              /\ boats[b].sent_count = 0
              /\ boats[b].current_index = 0
              /\ emitted[b] = <<>>
              /\ visits[b] = 0

C2_Witness ==
    /\ AllWorkersDone
    /\ N_BOATS > Capacity
    /\ boat_queue # <<>>
    /\ \A b \in Claimed : boats[b].sent_count = Rows(b)
    /\ \E b \in Claimed : Rows(b) > 0

\* ------------------------------------------------------------------------
\* C3: the capacity computed by calculate_boats_per_thread equals
\* clamp(ceil(N/W * bufferFactor), 1, 50), bufferFactor = 1.5 if N > W and
\* 1.0 otherwise.
\* ------------------------------------------------------------------------
CeilDiv(a, b) == (a + b - 1) \div b

ClaimedCapacity(n, w) ==
    LET c == IF n > w THEN CeilDiv(3 * n, 2 * w) ELSE CeilDiv(n, w)
    IN  Max(1, Min(c, 50))

C3_CapacityFormula ==
    main_pc # "calc" =>
        BOATS_PER_THREAD = ClaimedCapacity(N_BOATS, MAX_WORKER_THREADS)

\* ------------------------------------------------------------------------
\* C4: no boat is dequeued more than once, no boat is in the batch of two
\* workers, and the cursor, sent_count, last_send_time and completed of a
\* boat are written only in steps of the one worker that claimed it.
\* ------------------------------------------------------------------------
NoDoubleClaim ==
    /\ \A w \in Workers :
          \A i, j \in DOMAIN local_boats[w] :
              local_boats[w][i] = local_boats[w][j] => i = j
    /\ \A v, w \in Workers : v # w => Batch(v) \cap Batch(w) = {}
    /\ \A w \in Workers : Batch(w) \cap Range(boat_queue) = {}

OwnerWrites ==
    boats' # boats =>
        \A b \in Created :
            Written(b) =>
                \E w \in Workers :
                    /\ Acts(w)
                    /\ b \in Batch(w)
                    /\ \A v \in Workers :
                          v # w => ~Acts(v) /\ b \notin Batch(v)

C4_ExclusiveOwner == []NoDoubleClaim /\ [][OwnerWrites]_vars

C4_Witness ==
    \E v, w \in Workers :
        /\ v # w
        /\ InRounds(v) /\ InRounds(w)
        /\ \E b \in Batch(v) : boats[b].sent_count > 0
        /\ \E b \in Batch(w) : boats[b].sent_count > 0

\* ------------------------------------------------------------------------
\* C5: no work-stealing: a batch never holds more than C boats, a worker
\* that holds C boats dequeues no more even when the queue is not empty,
\* and a worker that has left its claim loop keeps its batch and never
\* dequeues again, whatever the state of its boats.
\* ------------------------------------------------------------------------
BatchWithinCapacity ==
    \A w \in Workers : Len(local_boats[w]) <= BOATS_PER_THREAD

NoSteal ==
    /\ \A w \in Workers :
          /\ (pc[w] = "claim" /\ Len(local_boats[w]) = BOATS_PER_THREAD) =>
                local_boats'[w] = local_boats[w]
          /\ LeftClaimLoop(w) =>
                /\ local_boats'[w] = local_boats[w]
                /\ LeftClaimLoop(w)'
    /\ (main_pc # "create" /\ boat_queue' # boat_queue) =>
          \E w \in Workers :
              /\ pc[w] = "claim"
              /\ Len(local_boats[w]) < BOATS_PER_THREAD
              /\ local_boats'[w] = Append(local_boats[w], Head(boat_queue))
              /\ boat_queue' = Tail(boat_queue)

VisitedThisRound(w, i) ==
    \/ i < boat_pos[w]
    \/ i = boat_pos[w] /\ pc[w] = "wait"

RoundsAndVisits ==
    \A w \in Workers :
        LeftClaimLoop(w) /\ local_boats[w] # <<>> =>
            LET longest == LongestRows(w)
            IN  /\ pc[w] = "done" =>
                      /\ round_index[w] = longest
                      /\ \A b \in Batch(w) : visits[b] = longest
                /\ InRounds(w) =>
                      /\ round_index[w] <= longest
                      /\ boat_pos[w] \in DOMAIN local_boats[w]
                      /\ \A i \in DOMAIN local_boats[w] :
                            visits[local_boats[w][i]] =
                                IF round_index[w] < longest
                                      /\ VisitedThisRound(w, i)
                                  THEN round_index[w] + 1
                                  ELSE round_index[w]

SkipIsNoOp ==
    visits' # visits =>
        \A b \in Created :
            (visits'[b] # visits[b] /\ boats[b].completed) =>
                /\ visits'[b] = visits[b] + 1
                /\ boats' = boats
                /\ emitted' = emitted
                /\ total_messages_sent' = total_messages_sent

C6_Rounds == []RoundsAndVisits /\ [][SkipIsNoOp]_vars

C6_Witness ==
    \E w \in Workers :
        /\ pc[w] = "done"
        /\ \E a, b \in Batch(w) :
              /\ Rows(a) >= 1
              /\ Rows(a) < Rows(b)
              /\ boats[a].completed
              /\ visits[a] = Rows(b)
              /\ visits[a] > boats[a].sent_count

\* ------------------------------------------------------------------------
\* C7: the records of a boat handed to the sink are at every moment a
\* prefix of its loaded rows, in row order: no row twice, no row skipped.
\* ------------------------------------------------------------------------
C7_EmittedPrefix ==
    \A b \in Created :
        /\ Len(emitted[b]) <= Rows(b)
        /\ \A i \in DOMAIN emitted[b] :
              emitted[b][i].row = boats[b].data_lines[i]

C7_Witness ==
    \E b \in Created : Len(emitted[b]) >= 2 /\ Len(emitted[b]) = Rows(b)

\* ------------------------------------------------------------------------
\* C8: for every boat, when the run has completed, sent_count equals the
\* window size end_row - start_row.
\* ------------------------------------------------------------------------
C8_WindowSent ==
    AllWorkersDone =>
        \A b \in 1..N_BOATS : boats[b].sent_count = END_ROW - START_ROW

\* ------------------------------------------------------------------------
\* C9: two consecutive emissions of a boat are at least the rate interval
\* apart: get_next_message is called again only when at least RateInterval
\* has passed since last_send_time; so the k-th emission of a boat is at
\* least (k-1) intervals after its first (100 ms for 3 rows).
\* ------------------------------------------------------------------------
GatedSend ==
    \A b \in Created :
        (boats'[b].sent_count = boats[b].sent_count + 1
            /\ boats[b].sent_count >= 1) =>
                boats[b].since_last_send >= RateInterval

SpanOfEmissions ==
    \A b \in Created :
        boats[b].sent_count >= 1 =>
            first_age[b] >= (boats[b].sent_count - 1) * RateInterval

C9_RateGate == []SpanOfEmissions /\ [][GatedSend]_vars

C9_Witness ==
    \E b \in Created :
        /\ Rows(b) = 3
        /\ boats[b].sent_count = 3
        /\ first_age[b] = 2 * RateInterval

\* ------------------------------------------------------------------------
\* C10: for every boat, also one without rows, current_index never
\* decreases, stays within 0..len(rows), and completed is true if and only
\* if current_index = len(rows).
\* ------------------------------------------------------------------------
C10_CursorAndFlag ==
    \A b \in Created :
        /\ boats[b].current_index \in 0..Rows(b)
        /\ boats[b].completed <=> (boats[b].current_index = Rows(b))

\* ------------------------------------------------------------------------
\* C11: a publish failure for one record (producer.produce raising in the
\* round loop) never aborts the worker: a worker whose task has ended has
\* run all the rounds of its batch, whether or not a publish call failed.
\* ------------------------------------------------------------------------
C11_PublishFailureContinues ==
    \A w \in Workers :
        (TaskEnded(w) /\ local_boats[w] # <<>>) =>
            round_index[w] = max_rounds[w]

\* ------------------------------------------------------------------------
\* C12: when the orchestrator reports, total_messages equals the sum of
\* sent_count over all boats, also in runs in which a publish call or a
\* worker fails.
\* ------------------------------------------------------------------------
RECURSIVE SumSentCount(_)
\* sent_count summed over the boats 1..n
SumSentCount(n) ==
    IF n = 0 THEN 0 ELSE boats[n].sent_count + SumSentCount(n - 1)

C12_AggregateTotal ==
    main_pc = "report" => total_messages = SumSentCount(Len(boats))

\* ------------------------------------------------------------------------
\* C13: a worker that cannot reach the sink at start shuts down alone, the
\* other workers run on.
\* ------------------------------------------------------------------------
StartFailed(w) == pc[w] = "no_sink"
AllTasksEnded == \A w \in Workers : TaskEnded(w)
Survivors == {w \in Workers : ~StartFailed(w)}

RunsOn(v) ==
    \/ StartWorker(v) \/ ClaimBoat(v) \/ ClaimEnd(v) \/ VisitSkip(v)
    \/ VisitSend(v) \/ VisitWait(v) \/ WaitSend(v) \/ WorkerFinish(v)
    \/ Tick

OthersRunOn ==
    (\E w \in Workers : StartFailed(w)) =>
        \A v \in Workers :
            pc[v] \in {"submitted", "claim", "round", "wait"} =>
                ENABLED RunsOn(v)

NothingClaimedNothingLost ==
    /\ \A w \in Workers :
          StartFailed(w) =>
              /\ local_boats[w] = <<>>
              /\ total_messages_sent[w] = 0
              /\ result[w] = 0
    /\ Range(boat_queue) \cup UNION {Batch(w) : w \in Survivors} = Created
    /\ AllTasksEnded =>
          Len(boat_queue) =
              Max(0, N_BOATS - Cardinality(Survivors) * BOATS_PER_THREAD)

StartFailureIsLocal ==
    \A w \in Workers :
        /\ StartFailed(w) => StartFailed(w)'
        /\ (~StartFailed(w) /\ StartFailed(w)') =>
              /\ pc[w] = "submitted"
              /\ \A v \in Workers \ {w} : pc'[v] = pc[v]
              /\ UNCHANGED <<boat_queue, boats, local_boats, emitted,
                             main_vars>>

C14_SetupAbort ==
    setup_failed =>
        /\ submitted = 0
        /\ \A w \in Workers : pc[w] = "unsubmitted" /\ local_boats[w] = <<>>
        /\ boat_queue = [i \in 1..Len(boats) |-> i]
        /\ \A b \in Created :
              /\ emitted[b] = <<>>
              /\ boats[b].sent_count = 0
              /\ visits[b] = 0
        /\ total_messages = 0

C14_Witness ==
    /\ setup_failed
    /\ main_pc = "aborted"
    /\ boat_queue # <<>>
    /\ Len(boats) < N_BOATS

\* ------------------------------------------------------------------------
\* C15: the final total is computed only after every one of the W worker
\* tasks has finished or failed: at the report no worker is claiming or
\* emitting, and the total holds the count of every worker that returned,
\* whatever happened to the others.
\* ------------------------------------------------------------------------
RECURSIVE SumReturned(_)
\* the counts returned by the tasks 1..n that ended by a return
SumReturned(n) ==
    IF n = 0 THEN 0
    ELSE (IF pc[n] = "done" THEN result[n] ELSE 0) + SumReturned(n - 1)

C15_ReportAfterAll ==
    main_pc = "report" =>
        /\ \A w \in Workers : TaskEnded(w)
        /\ collected = Workers
        /\ total_messages = SumReturned(MAX_WORKER_THREADS)

C15_Witness ==
    /\ main_pc = "report"
    /\ \E w \in Workers : pc[w] = "raised"
    /\ \E w \in Workers : pc[w] = "done" /\ result[w] > 0
    /\ total_messages > 0

\* ------------------------------------------------------------------------
\* C16: within one worker every pending boat emits exactly one record per
\* round: a boat with k rows emits its m-th record in round index m-1, is
\* completed at the end of round index k-1 and is skipped without a
\* rate-gate wait in all later rounds; the worker's total is the sum of the
\* row counts of its boats (rows 5, 3, 7 on one worker: 7 rounds, boat 2
\* completed in round index 2, total 15).
\* ------------------------------------------------------------------------
RECURSIVE SumRows(_)
\* the row counts of the boats of a batch, summed
SumRows(batch) ==
    IF batch = <<>> THEN 0 ELSE Rows(Head(batch)) + SumRows(Tail(batch))

\* the number of rounds in which the boat at position i has had its visit
RoundsVisited(w, i) ==
    IF pc[w] = "round" /\ i < boat_pos[w] THEN round_index[w] + 1
                                           ELSE round_index[w]

OneRecordPerRound ==
    /\ \A b \in Created :
          boats[b].completed <=> (Rows(b) > 0 /\ Len(emitted[b]) = Rows(b))
    /\ \A w \in Workers :
          /\ InRounds(w) =>
                \A i \in DOMAIN local_boats[w] :
                    Len(emitted[local_boats[w][i]]) =
                        Min(Rows(local_boats[w][i]), RoundsVisited(w, i))
          /\ pc[w] = "done" =>
                /\ \A b \in Batch(w) : Len(emitted[b]) = Rows(b)
                /\ result[w] = SumRows(local_boats[w])

\* the step that publishes the m-th record of a boat is taken in round
\* index m-1, and the one that publishes the last sets completed
RecordInItsRound ==
    \A w \in Workers :
        InRounds(w) =>
            LET b == CurrentBoat(w)
            IN  Len(emitted'[b]) # Len(emitted[b]) =>
                    /\ Len(emitted'[b]) = Len(emitted[b]) + 1
                    /\ round_index[w] = Len(emitted[b])
                    /\ boats'[b].completed <=> (round_index[w] = Rows(b) - 1)

SkippedWithoutWait ==
    \A w \in Workers :
        (Acts(w) /\ pc[w] = "round" /\ round_index[w] < max_rounds[w]
            /\ boats[CurrentBoat(w)].completed) =>
                /\ pc'[w] = "round"
                /\ visits'[CurrentBoat(w)] = visits[CurrentBoat(w)] + 1
                /\ UNCHANGED <<boats, emitted, total_messages_sent>>

C16_LockStepRounds ==
    /\ []OneRecordPerRound
    /\ [][RecordInItsRound /\ SkippedWithoutWait]_vars

C16_Witness ==
    /\ pc[1] = "done"
    /\ <<Rows(1), Rows(2), Rows(3)>> = ScenarioRows
    /\ local_boats[1] = <<1, 2, 3>>
    /\ round_index[1] = 7
    /\ result[1] = 15
    /\ boats[2].completed
    /\ visits[2] = 7
    /\ boats[2].sent_count = 3

\* ------------------------------------------------------------------------
\* C17: for a pending boat, get_next_message returns the row at the cursor
\* with the column 'boat' set to the boat's unique id, 'time' and
\* 'timestamp' set to the same emission instant and every other column as
\* loaded; it advances the cursor by exactly one, sets last_send_time, and
\* sets completed exactly when the cursor reaches len(rows).
\* ------------------------------------------------------------------------
Overwritten == {"boat", "time", "timestamp"}

TakesNext ==
    \A w \in Workers :
        InRounds(w) =>
            LET b == CurrentBoat(w)
                old == boats[b]
                new == boats'[b]
                loaded == csv_row(old.file_path,
                                  old.data_lines[old.current_index + 1])
                msg == message_data'[w]
            IN  new.current_index # old.current_index =>
                    /\ has_next_message(old)
                    /\ new.current_index = old.current_index + 1
                    /\ new.since_last_send = 0
                    /\ new.completed <=>
                          (new.current_index = Len(new.data_lines))
                    /\ new.data_lines = old.data_lines
                    /\ DOMAIN msg = DOMAIN loaded
                    /\ msg.boat = unique_boat_id(old.boat_id)
                    /\ msg.time = utc_now
                    /\ msg.timestamp = msg.time
                    /\ \A c \in DOMAIN loaded \ Overwritten :
                          msg[c] = loaded[c]

C17_GetNextMessage == [][TakesNext]_vars

C17_Witness ==
    \E w \in Workers :
        /\ pc[w] = "done"
        /\ total_messages_sent[w] >= 2
        /\ message_data[w].time >= RateInterval
        /\ message_data[w].timestamp = message_data[w].time
        /\ \E b \in Batch(w) :
              /\ boats[b].completed
              /\ message_data[w].boat = unique_boat_id(b)
              /\ message_data[w].data = boats[b].data_lines[Rows(b)]

\* ------------------------------------------------------------------------
\* C18: the ids of the boats are unique: the N boats that the orchestrator
\* creates have N different formatted ids BOAT_<zero-padded boat_id>, also
\* when N is above 999, the largest number of three digits.
\* ------------------------------------------------------------------------
C18_UniqueIds ==
    Cardinality({unique_boat_id(boats[b].boat_id) : b \in Created})
        = Len(boats)

C18_Witness ==
    /\ main_pc = "submit"
    /\ Len(boats) = N_BOATS
    /\ N_BOATS > 999
    /\ unique_boat_id(boats[1].boat_id).digits = <<0, 0, 1>>
    /\ Len(unique_boat_id(boats[N_BOATS].boat_id).digits) = 4

\* ------------------------------------------------------------------------
\* C19: boat_queue is populated once, completely, before any worker
\* starts: every enqueue precedes every dequeue, no boat is enqueued after
\* the pool has been started, and the queue is read only by workers in
\* their claim loop.
\* ------------------------------------------------------------------------
PoolStarted == main_pc \in {"collect", "report"}

PopulatedBeforeStart ==
    /\ (PoolStarted \/ \E w \in Workers : pc[w] # "unsubmitted") =>
          /\ PoolStarted
          /\ Len(boats) = N_BOATS
          /\ Range(boat_queue) \cup Claimed = 1..N_BOATS
    /\ ~PoolStarted =>
          /\ boat_queue = [i \in 1..Len(boats) |-> i]
          /\ Claimed = {}

EnqueueThenDequeue ==
    boat_queue' # boat_queue =>
        \/ /\ boat_queue' = Append(boat_queue, Len(boats) + 1)
           /\ main_pc = "create"
           /\ Len(boats') = Len(boats) + 1
           /\ \A w \in Workers : pc[w] = "unsubmitted"
           /\ Claimed = {}
        \/ /\ boat_queue' = Tail(boat_queue)
           /\ PoolStarted
           /\ Len(boats) = N_BOATS
           /\ \E w \in Workers :
                 /\ pc[w] = "claim"
                 /\ local_boats'[w] = Append(local_boats[w], Head(boat_queue))

C19_PopulatedOnce == []PopulatedBeforeStart /\ [][EnqueueThenDequeue]_vars

C19_Witness ==
    /\ PoolStarted
    /\ Len(boats) = N_BOATS
    /\ N_BOATS >= 2
    /\ Len(boat_queue) = 1
    /\ \E w \in Workers : pc[w] = "claim" /\ local_boats[w] # <<>>
    /\ \E w \in Workers : pc[w] = "submitted"

\* ------------------------------------------------------------------------
\* C20: in the barrier producer the threads publish in lock-step: no
\* thread publishes its (k+1)-th record before every one of the
\* num_threads threads has published its k-th record, for every k.
\* ------------------------------------------------------------------------
NeverAhead ==
    \A s, t \in Threads : thread_sent_count[s] <= thread_sent_count[t] + 1

PublishesInStep ==
    \A t \in Threads :
        thread_sent_count'[t] # thread_sent_count[t] =>
            /\ thread_sent_count'[t] = thread_sent_count[t] + 1
            /\ \A s \in Threads :
                  thread_sent_count[s] >= thread_sent_count[t]

C20_BarrierLockStep == []NeverAhead /\ [][PublishesInStep]_vars

C20_Witness ==
    /\ \A t \in Threads : reader_len[t] > START_ROW + 1
    /\ \E s, t \in Threads :
          /\ thread_sent_count[s] = 2
          /\ thread_sent_count[t] = 1
          /\ thread_pc[t] = "blocked"
    /\ barrier_state = "draining"

\* ------------------------------------------------------------------------
\* C22: visiting a boat for which has_next_message() is false changes
\* nothing: get_next_message returns None and leaves current_index,
\* sent_count, last_send_time and completed as they are, the worker neither
\* waits at the rate gate nor publishes for it, and its
\* total_messages_sent is unchanged.
\* ------------------------------------------------------------------------
TakeOfNonPendingIsNoOp ==
    \A b \in Created :
        ~has_next_message(boats[b]) =>
            /\ get_next_message(boats[b]) = boats[b]
            /\ get_next_message_return(boats[b], utc_now) = None

VisitOfNonPending ==
    \A w \in Workers :
        (/\ pc[w] = "round"
         /\ round_index[w] < max_rounds[w]
         /\ ~has_next_message(boats[CurrentBoat(w)])
         /\ Acts(w)) =>
            /\ pc'[w] = "round"
            /\ visits'[CurrentBoat(w)] = visits[CurrentBoat(w)] + 1
            /\ UNCHANGED <<boats, emitted, total_messages_sent, message_data,
                           first_age, utc_now>>

C22_NonPendingVisit == []TakeOfNonPendingIsNoOp /\ [][VisitOfNonPending]_vars

C22_Witness ==
    \E w \in Workers :
        /\ pc[w] = "done"
        /\ \E a, b \in Batch(w) :
              /\ Rows(a) = 0 /\ ~boats[a].completed /\ visits[a] > 1
              /\ boats[a] = NewBoat(a, boats[a].file_path)
              /\ emitted[a] = <<>>
              /\ boats[b].completed /\ boats[b].sent_count > 1
        /\ total_messages_sent[w] = SumRows(local_boats[w])

\* ------------------------------------------------------------------------
\* C23: under any interleaving of concurrent claimers, the set of claimed
\* boats is always a prefix of the enqueue order and every batch lists its
\* boats in increasing enqueue order; so when W*C < N the boats never
\* claimed are exactly the last N - W*C enqueued, never one from the
\* middle.  Boats are enqueued in the order of their ids.
\* ------------------------------------------------------------------------
NumClaimed == Len(boats) - Len(boat_queue)

C23_ClaimedPrefix ==
    /\ Claimed = 1..NumClaimed
    /\ boat_queue = [i \in 1..Len(boat_queue) |-> NumClaimed + i]
    /\ \A w \in Workers :
          \A i, j \in DOMAIN local_boats[w] :
              i < j => local_boats[w][i] < local_boats[w][j]
    /\ ((\A w \in Workers : LeftClaimLoop(w)) /\ Capacity < N_BOATS) =>
          Range(boat_queue) = (Capacity + 1)..N_BOATS

C23_Witness ==
    \/ /\ Capacity < N_BOATS
       /\ \A w \in Workers : LeftClaimLoop(w)
       /\ boat_queue = <<N_BOATS>>
       /\ \E v, w \in Workers :
             v < w /\ local_boats[v] # <<>> /\ local_boats[w] # <<>>
                   /\ local_boats[w][1] < local_boats[v][1]
    \/ /\ boat_queue = <<>>
       /\ \E v, w \in Workers :
             /\ Len(local_boats[v]) >= 2 /\ Len(local_boats[w]) >= 2
             /\ local_boats[v][1] < local_boats[w][1]
             /\ local_boats[w][1] < local_boats[v][2]
             /\ local_boats[v][2] < local_boats[w][2]

\* ------------------------------------------------------------------------
\* C24: whenever the cap of 50 is not the limiting factor (N <= 50*W), the
\* capacity C computed by calculate_boats_per_thread satisfies W*C >= N, so
\* the pool has room for every boat; boats can be left unclaimed only when
\* N > 50*W.
\* ------------------------------------------------------------------------
C24_RoomForAll ==
    (main_pc # "calc" /\ N_BOATS <= BoatCap * MAX_WORKER_THREADS) =>
        /\ Capacity >= N_BOATS
        /\ AllWorkersDone => boat_queue = <<>>

\* ------------------------------------------------------------------------
\* C21: in the stress-test producer every batch sends exactly one message
\* per boat name (N messages), all built from the same source row
\* csv_data[current_row_index]; batch k uses row k, the row index advances
\* by exactly one per batch, and batch k+1 does not start before every send
\* of batch k has finished.
\* ------------------------------------------------------------------------
\* the messages of batch k (counted from 1), one per boat name, built from
\* row k-1 of csv_data
BatchMessages(k) ==
    {boat_row_data(csv_data(k - 1), boat_names(stress.boats)[i], utc_now) :
        i \in 1..stress.boats}

InBatch == stress.pc \in {"collect", "exit"}

OneMessagePerBoat ==
    /\ stress.current_row_index = stress.batch_count
    /\ Len(stress.produced) =
          IF InBatch THEN stress.batch_count + 1 ELSE stress.batch_count
    /\ \A k \in DOMAIN stress.produced :
          /\ DOMAIN stress.produced[k] \subseteq BatchMessages(k)
          /\ \A m \in DOMAIN stress.produced[k] : stress.produced[k][m] = 1
          /\ (k <= stress.batch_count) =>
                DOMAIN stress.produced[k] = BatchMessages(k)
    /\ ~InBatch =>
          \A i \in DOMAIN stress.futures : stress.futures[i] # "pending"

BatchByBatch ==
    /\ stress'.current_row_index # stress.current_row_index =>
          /\ stress'.current_row_index = stress.current_row_index + 1
          /\ stress'.batch_count = stress.batch_count + 1
          /\ \A i \in 1..stress.boats : stress.futures[i] # "pending"
    /\ Len(stress'.produced) # Len(stress.produced) =>
          /\ stress'.row_data = csv_data(stress.batch_count)
          /\ \A i \in DOMAIN stress.futures : stress.futures[i] # "pending"

C21_BatchLockStep == []OneMessagePerBoat /\ [][BatchByBatch]_vars

C21_Witness ==
    /\ stress.pc = "final"
    /\ stress.boats >= 2
    /\ stress.batch_count >= 2
    /\ stress.total_messages_sent < stress.completed
    /\ stress.produced[2] # stress.produced[1]

\* ------------------------------------------------------------------------
\* C29: in the stress-test producer the reported total_messages_sent equals
\* the number of messages actually handed to a Kafka producer: after every
\* batch, total_messages_sent is the count of produce calls that completed,
\* including when a future's 40 ms result timeout expires.
\* ------------------------------------------------------------------------
C29_ReportedTotal ==
    ~InBatch => stress.total_messages_sent = stress.completed

\* ------------------------------------------------------------------------
\* C26: in every reachable state of the pool simulator the sent_count of
\* each boat equals its cursor current_index, and whenever a worker is
\* between two visits its running total_messages_sent equals the sum of
\* sent_count over the boats of its batch.
\* ------------------------------------------------------------------------
RECURSIVE SumBatchSent(_)
\* sent_count summed over the boats of a batch
SumBatchSent(batch) ==
    IF batch = <<>> THEN 0
    ELSE boats[Head(batch)].sent_count + SumBatchSent(Tail(batch))

\* worker w is in its round loop, not inside the visit of a boat
BetweenVisits(w) == pc[w] = "round"

C26_CountsAgree ==
    /\ \A b \in Created : boats[b].sent_count = boats[b].current_index
    /\ \A w \in Workers :
          BetweenVisits(w) =>
              total_messages_sent[w] = SumBatchSent(local_boats[w])

C26_Witness ==
    \E w \in Workers :
        /\ BetweenVisits(w)
        /\ Len(local_boats[w]) >= 2
        /\ total_messages_sent[w] >= 3
        /\ \E a, b \in Batch(w) :
              boats[a].sent_count > boats[b].sent_count
                 /\ boats[b].sent_count > 0
                 /\ boats[b].completed

\* ------------------------------------------------------------------------
\* C25: provided the clock keeps advancing and publish calls return, every
\* worker terminates: each rate-gate spin-wait ends after at most one rate
\* interval, the round loop is bounded by max_rounds, a worker that claimed
\* nothing returns 0 without running any round, and the orchestrator
\* eventually reaches the final report.
\* ------------------------------------------------------------------------
\* a worker sleeps only at the closed gate of a pending boat of its batch,
\* whose last send is less than one rate interval back; the round counter
\* never passes max_rounds; a worker without boats returns 0 at once
BoundedLoops ==
    \A w \in Workers :
        /\ pc[w] = "wait" =>
              /\ has_next_message(boats[CurrentBoat(w)])
              /\ boats[CurrentBoat(w)].since_last_send \in 0..RateInterval
              /\ can_send_now(boats[CurrentBoat(w)]) => ENABLED WaitSend(w)
        /\ round_index[w] <= max_rounds[w]
        /\ (pc[w] = "done" /\ local_boats[w] = <<>>) =>
              /\ result[w] = 0
              /\ round_index[w] = 0
              /\ max_rounds[w] = 0
              /\ total_messages_sent[w] = 0

\* a sleeping worker is not woken before the gate is open, and the time a
\* boat has waited never goes back while its worker sleeps
SleepsToTheGate ==
    \A w \in Workers :
        pc[w] = "wait" =>
            /\ pc'[w] # "wait" => can_send_now(boats[CurrentBoat(w)])
            /\ pc'[w] = "wait" =>
                  boats'[CurrentBoat(w)].since_last_send >=
                      boats[CurrentBoat(w)].since_last_send

C25_WorkersTerminate ==
    /\ []BoundedLoops
    /\ [][SleepsToTheGate]_vars
    /\ <>[](AllWorkersDone /\ main_pc = "report")

C25_Witness ==
    /\ main_pc = "report"
    /\ AllWorkersDone
    /\ \E w \in Workers : local_boats[w] = <<>> /\ result[w] = 0
    /\ \E w \in Workers :
          /\ result[w] >= 2
          /\ \E b \in Batch(w) : boats[b].sent_count >= 2

\* ------------------------------------------------------------------------
\* C27: the barrier producer always terminates: for any row counts of the
\* input files, every boat thread eventually leaves its send loop, the
\* main thread's join of all threads returns and the completion message is
\* printed; no thread stays blocked for ever in barrier.wait().
\* ------------------------------------------------------------------------
AllJoined == join_pos > NumThreads

C27_ProducerTerminates ==
    <>[](AllJoined /\ \A t \in Threads : thread_pc[t] = "ended")

\* ------------------------------------------------------------------------
\* C28: in KafkaProducerThread_single.py an error in one boat's thread,
\* caught and logged by the except clause of invia_messaggi_a_kafka, is
\* local to that thread: the other boat threads still publish all of their
\* rows and terminate.  Stated for datasets of one length, so that only the
\* error is in the way.
\* ------------------------------------------------------------------------
\* the number of rows that the loop of thread t publishes when it runs to
\* its end
RowsToPublish(t) == Max(0, Min(PRODUCER_END_ROW, reader_len[t]) - START_ROW)

SameLength == \A s, t \in Threads : reader_len[s] = reader_len[t]

C28_ErrorIsLocal ==
    (SameLength /\ \E t \in Threads : thread_pc[t] = "failed") ~>
        (\A t \in Threads :
            \/ thread_pc[t] = "failed"
            \/ /\ thread_pc[t] = "ended"
               /\ thread_sent_count[t] = RowsToPublish(t))

\* ------------------------------------------------------------------------
\* C30: in kafka_boat_producer.py a send failure for one row is logged and
\* does not stop the loop: send_to_kafka attempts every row exactly once, in
\* order, and returns the number of rows whose produce call succeeded;
\* process_boat_data never raises (it returns 0 on any error), so the
\* reported total is always sent1 + sent2, and the failure of one boat does
\* not affect the count of the other.
\* ------------------------------------------------------------------------
\* the number of produce calls of the task that returned
Succeeded(task) ==
    Cardinality({j \in DOMAIN task.attempts : task.attempts[j].ok})

EveryRowOnce ==
    \A t \in RaceBoats :
        LET task == race.task[t]
        IN  /\ \A j \in DOMAIN task.attempts : task.attempts[j].row = j - 1
            /\ Len(task.attempts) = task.i
            /\ task.i <= task.rows
            /\ task.sent_count = Succeeded(task)
            /\ (task.pc = "stop" \/ (task.pc = "returned" /\ ~task.error)) =>
                  /\ Len(task.attempts) = task.rows
                  /\ task.sent = Succeeded(task)
            /\ task.pc = "returned" =>
                  task.result = IF task.error THEN 0 ELSE Succeeded(task)
            /\ task.pc \in {"unsubmitted", "setup", "load", "send", "stop",
                            "returned"}

TotalIsSum ==
    /\ race.pc \in {"result2", "summary"} => race.sent1 = race.task[1].result
    /\ race.pc = "summary" =>
          /\ race.sent2 = race.task[2].result
          /\ race.total_sent = race.sent1 + race.sent2

\* a step of one task leaves the other task as it is, and a failed produce
\* call leaves its own task in the loop
FailureIsLocal ==
    \A t \in RaceBoats :
        race'.task[t] # race.task[t] =>
            /\ race.pc = "submit" \/
                  \A s \in RaceBoats \ {t} : race'.task[s] = race.task[s]
            /\ (Len(race'.task[t].attempts) > Len(race.task[t].attempts)) =>
                  /\ race'.task[t].pc = "send"
                  /\ ~race'.task[t].error

C30_RowFailureLogged ==
    /\ [](EveryRowOnce /\ TotalIsSum)
    /\ [][FailureIsLocal]_vars

C30_Witness ==
    /\ race.pc = "summary"
    /\ race.task[1].attempts = <<[row |-> 0, ok |-> FALSE],
                                 [row |-> 1, ok |-> TRUE]>>
    /\ ~race.task[1].error
    /\ race.sent1 = 1
    /\ race.task[2].error
    /\ race.task[2].attempts # <<>>
    /\ race.sent2 = 0
    /\ race.total_sent = 1

====
